---- MODULE Spec2Model ----
(***************************************************************************)
(* WriteDesign (metagpt/actions/design_api.py): the incremental system     *)
(* design step.  One run walks the changed requirement documents and the   *)
(* changed design documents, and for each filename reads the PRD and the   *)
(* prior design, asks the model for a new or merged design, fixes the      *)
(* package name, possibly renames the workspace, saves the design and      *)
(* derives the diagram files and the PDF.                                  *)
(*                                                                         *)
(* Every await of the source is one step.  The collaborators (file         *)
(* repositories, the model, the mermaid renderer, the PDF exporter, the    *)
(* git repository) are represented by the calls made on them, recorded in  *)
(* `log` in call order, and by the design repository's content.  Any call  *)
(* on a collaborator may raise; the source has no try/except, so a raise   *)
(* ends the run.                                                           *)
(***************************************************************************)
EXTENDS Integers, Sequences, FiniteSets, TLC

VARIABLES
    changed_prds,            \* keys of prds_file_repo.changed_files, in dict order
    changed_system_designs,  \* keys of system_design_file_repo.changed_files, in dict order
    WORKDIR,                 \* CONFIG.WORKDIR is set
    prds,                    \* PRD repository: filename -> <<>> (absent) or <<doc>>
    system_designs,          \* design repository: filename -> <<>> or <<doc>>
    changed_files,           \* Documents().docs of run: filename -> Document
    phase,                   \* 1: loop over changed_prds, 2: loop over changed_system_designs
    idx,                     \* position of the running loop
    pc,                      \* the statement the coroutine is at
    filename,                \* _update_system_design's parameter
    prd,                     \* local prd (<<>> is None)
    old_system_design_doc,   \* local old_system_design_doc (<<>> is None)
    system_design,           \* instruct_content of the model's answer (<<>> before the call)
    doc,                     \* local doc (<<>> before it is bound)
    result,                  \* what run returned (<<>> while it has not)
    log                      \* calls made on the collaborators, in order

vars == <<changed_prds, changed_system_designs, WORKDIR, prds, system_designs,
          changed_files, phase, idx, pc, filename, prd, old_system_design_doc,
          system_design, doc, result, log>>

\* ------------------------------------------------------------------ bounds

NumFiles == 2
MaxNameLen == 3

\* --------------------------------------------------------------- constants

Files == 1..NumFiles

SYSTEM_DESIGN_FILE_REPO == "SYSTEM_DESIGN_FILE_REPO"
DATA_API_DESIGN_FILE_REPO == "DATA_API_DESIGN_FILE_REPO"
SEQ_FLOW_FILE_REPO == "SEQ_FLOW_FILE_REPO"

\* Characters of a package name: a whitespace, the two quotes, a letter.
SP == " "
SQ == "'"
DQ == "\""
Whitespace == {SP}
Chars == {SP, SQ, DQ, "a"}

\* ----------------------------------------------------------------- helpers

Range(s) == {s[i] : i \in 1..Len(s)}

\* Sequences without repetition over S (the key order of a dict).
RECURSIVE Orders(_)
Orders(S) ==
    IF S = {} THEN {<<>>}
    ELSE UNION {{<<x>> \o t : t \in Orders(S \ {x})} : x \in S}

KeyOrders(S) == UNION {Orders(T) : T \in SUBSET S}

\* All strings of length at most n over Chars.
RECURSIVE Names(_)
Names(n) ==
    IF n = 0 THEN {<<>>}
    ELSE Names(n - 1) \cup
         {Append(s, c) : s \in {t \in Names(n - 1) : Len(t) = n - 1}, c \in Chars}

\* str.strip(chars): drop leading and trailing characters that are in cs.
RECURSIVE LStrip(_, _)
LStrip(s, cs) ==
    IF s # <<>> /\ Head(s) \in cs THEN LStrip(Tail(s), cs) ELSE s

RECURSIVE RStrip(_, _)
RStrip(s, cs) ==
    IF s # <<>> /\ s[Len(s)] \in cs THEN RStrip(SubSeq(s, 1, Len(s) - 1), cs) ELSE s

Strip(s, cs) == RStrip(LStrip(s, cs), cs)

\* .strip().strip("'").strip('"')
FixName(name) == Strip(Strip(Strip(name, Whitespace), {SQ}), {DQ})

\* ---------------------------------------------------------------- documents

\* The model's answers.  The three fields the code reads are kept; the other
\* fields of OUTPUT_MAPPING pass through untouched.
RawNames == {<<"a">>, <<SP, SQ, "a", SQ>>}
ClassTexts == {"", "classDiagram"}
SeqTexts == {"", "sequenceDiagram"}

Answer(name, data, seq) ==
    [python_package_name |-> name,
     data_structures_and_interface_definitions |-> data,
     program_call_flow |-> seq]

Answers == {Answer(n, d, s) : n \in RawNames, d \in ClassTexts, s \in SeqTexts}

Document(root_path, fname, content) ==
    [root_path |-> root_path, filename |-> fname, content |-> content]

PrdContent(f) == <<"prd", f>>
PrdDoc(f) == Document("prds_file_repo.root_path", f, PrdContent(f))
RootRelativePath(d) == <<d.root_path, d.filename>>

OldContent == Answer(<<"a">>, "classDiagram", "sequenceDiagram")
OldDesignDoc(f) == Document("system_design_file_repo.root_path", f, OldContent)

Event(op, f, arg, ret) == [op |-> op, filename |-> f, arg |-> arg, ret |-> ret]

\* -------------------------------------------------------------------- Init

\* Filenames are interchangeable (every per-file input below is drawn for each
\* file alike), so the files are numbered by their position among the keys of
\* changed_prds; the keys of changed_system_designs come in any order.

Init ==
    /\ changed_prds \in {[i \in 1..k |-> i] : k \in 0..NumFiles}
    /\ changed_system_designs \in KeyOrders(Files)
    /\ WORKDIR \in BOOLEAN
    /\ prds \in {[f \in Files |-> IF f \in S THEN <<PrdDoc(f)>> ELSE <<>>] : S \in SUBSET Files}
    /\ system_designs \in {[f \in Files |-> IF f \in S THEN <<OldDesignDoc(f)>> ELSE <<>>] : S \in SUBSET Files}
    /\ changed_files = <<>>
    /\ phase = 1
    /\ idx = 1
    /\ pc = "for_changed_prds"
    /\ filename = 0
    /\ prd = <<>>
    /\ old_system_design_doc = <<>>
    /\ system_design = <<>>
    /\ doc = <<>>
    /\ result = <<>>
    /\ log = <<>>

\* --------------------------------------------------------------------- run

locals == <<filename, prd, old_system_design_doc, system_design, doc>>
inputs == <<changed_prds, changed_system_designs, WORKDIR, prds>>

\* run, lines 209-212: the next key of changed_prds enters _update_system_design;
\* when the keys are exhausted the second loop starts.
ForChangedPrds ==
    /\ pc = "for_changed_prds"
    /\ IF idx <= Len(changed_prds)
       THEN /\ filename' = changed_prds[idx]
            /\ pc' = "get_prd"
            /\ UNCHANGED <<phase, idx>>
       ELSE /\ phase' = 2
            /\ idx' = 1
            /\ pc' = "for_changed_system_designs"
            /\ UNCHANGED filename
    /\ UNCHANGED <<inputs, system_designs, changed_files, prd, old_system_design_doc,
                   system_design, doc, result, log>>

ForChangedSystemDesigns_ReturnInLoop ==
    /\ pc = "for_changed_system_designs"
    /\ IF idx = 1 /\ idx <= Len(changed_system_designs)
       THEN IF changed_system_designs[idx] \in DOMAIN changed_files
            THEN /\ idx' = idx + 1
                 /\ UNCHANGED <<pc, filename>>
            ELSE /\ filename' = changed_system_designs[idx]
                 /\ pc' = "get_prd"
                 /\ UNCHANGED idx
       ELSE /\ pc' = "return"
            /\ UNCHANGED <<idx, filename>>
    /\ UNCHANGED <<inputs, system_designs, changed_files, phase, prd,
                   old_system_design_doc, system_design, doc, result, log>>

ForChangedSystemDesigns_NoSkip ==
    /\ pc = "for_changed_system_designs"
    /\ IF idx <= Len(changed_system_designs)
       THEN /\ filename' = changed_system_designs[idx]
            /\ pc' = "get_prd"
            /\ UNCHANGED idx
       ELSE /\ pc' = "return"
            /\ UNCHANGED <<idx, filename>>
    /\ UNCHANGED <<inputs, system_designs, changed_files, phase, prd,
                   old_system_design_doc, system_design, doc, result, log>>

\* run, lines 215-220: a key already in changed_files.docs is skipped.
ForChangedSystemDesigns ==
    /\ pc = "for_changed_system_designs"
    /\ IF idx <= Len(changed_system_designs)
       THEN IF changed_system_designs[idx] \in DOMAIN changed_files
            THEN /\ idx' = idx + 1
                 /\ UNCHANGED <<pc, filename>>
            ELSE /\ filename' = changed_system_designs[idx]
                 /\ pc' = "get_prd"
                 /\ UNCHANGED idx
       ELSE /\ pc' = "return"
            /\ UNCHANGED <<idx, filename>>
    /\ UNCHANGED <<inputs, system_designs, changed_files, phase, prd,
                   old_system_design_doc, system_design, doc, result, log>>

\* _update_system_design, line 268: prd = await prds_file_repo.get(filename)
GetPrd ==
    /\ pc = "get_prd"
    /\ prd' = prds[filename]
    /\ log' = Append(log, Event("prds.get", filename, <<>>, prds[filename]))
    /\ pc' = "get_design"
    /\ UNCHANGED <<inputs, system_designs, changed_files, phase, idx, filename,
                   old_system_design_doc, system_design, doc, result>>

GetDesign_AlwaysNew ==
    /\ pc = "get_design"
    /\ old_system_design_doc' = system_designs[filename]
    /\ log' = Append(log, Event("designs.get", filename, <<>>, system_designs[filename]))
    /\ pc' = "new_aask"
    /\ UNCHANGED <<inputs, system_designs, changed_files, phase, idx, filename, prd,
                   system_design, doc, result>>

\* _update_system_design, lines 269-270: the prior design, and the branch on it.
GetDesign ==
    /\ pc = "get_design"
    /\ old_system_design_doc' = system_designs[filename]
    /\ log' = Append(log, Event("designs.get", filename, <<>>, system_designs[filename]))
    /\ pc' = IF system_designs[filename] = <<>> THEN "new_aask" ELSE "merge_aask"
    /\ UNCHANGED <<inputs, system_designs, changed_files, phase, idx, filename, prd,
                   system_design, doc, result>>

\* _update_system_design line 271 and _new_system_design lines 229-232: the
\* prompt is built from prd.content and the model is asked.  prd.content on a
\* None prd raises before anything is asked (see AttributeErrorOnPrd).
NewAask ==
    /\ pc = "new_aask"
    /\ prd # <<>>
    /\ \E answer \in Answers :
        /\ system_design' = <<answer>>
        /\ log' = Append(log, Event("aask", filename,
                                    [context |-> prd[1].content, old_design |-> <<>>],
                                    <<>>))
    /\ pc' = "new_fix"
    /\ UNCHANGED <<inputs, system_designs, changed_files, phase, idx, filename, prd,
                   old_system_design_doc, doc, result>>

\* _merge, lines 244-245: MERGE_PROMPT takes the old design's content and the
\* prd's content.
MergeAask ==
    /\ pc = "merge_aask"
    /\ prd # <<>>
    /\ \E answer \in Answers :
        /\ system_design' = <<answer>>
        /\ log' = Append(log, Event("aask", filename,
                                    [context |-> prd[1].content,
                                     old_design |-> <<old_system_design_doc[1].content>>],
                                    <<>>))
    /\ pc' = "merge_fix"
    /\ UNCHANGED <<inputs, system_designs, changed_files, phase, idx, filename, prd,
                   old_system_design_doc, doc, result>>

\* prd is None: `prd.content` (line 271) and `prd_doc.content` (line 244) raise
\* AttributeError while the arguments of the call are evaluated.
AttributeErrorOnPrd ==
    /\ pc \in {"new_aask", "merge_aask"}
    /\ prd = <<>>
    /\ pc' = "raised"
    /\ UNCHANGED <<inputs, system_designs, changed_files, phase, idx, locals, result, log>>

\* _new_system_design, lines 235-239: the package name is fixed in place.
NewFix ==
    /\ pc = "new_fix"
    /\ system_design' = <<[system_design[1] EXCEPT
                             !.python_package_name = FixName(@)]>>
    /\ pc' = "rename_workspace"
    /\ UNCHANGED <<inputs, system_designs, changed_files, phase, idx, filename, prd,
                   old_system_design_doc, doc, result, log>>

\* _update_system_design, lines 272-274
NewDocument(f, content) == Document(SYSTEM_DESIGN_FILE_REPO, f, content)

RenameWorkspace_Always ==
    /\ pc = "rename_workspace"
    /\ log' = Append(log, Event("rename_root", filename,
                                system_design[1].python_package_name, <<>>))
    /\ doc' = <<NewDocument(filename, system_design[1])>>
    /\ pc' = "save"
    /\ UNCHANGED <<inputs, system_designs, changed_files, phase, idx, filename, prd,
                   old_system_design_doc, system_design, result>>

\* _rename_workspace, lines 257-265 (the answer is an ActionOutput), then the
\* return of _new_system_design and the Document of lines 272-274.
RenameWorkspace ==
    /\ pc = "rename_workspace"
    /\ IF WORKDIR
       THEN UNCHANGED log
       ELSE log' = Append(log, Event("rename_root", filename,
                                     system_design[1].python_package_name, <<>>))
    /\ doc' = <<NewDocument(filename, system_design[1])>>
    /\ pc' = "save"
    /\ UNCHANGED <<inputs, system_designs, changed_files, phase, idx, filename, prd,
                   old_system_design_doc, system_design, result>>

\* _merge, lines 248-254: the name is fixed and the old document gets the new
\* content; no workspace rename on this branch.  Line 253 assigns the content
\* on the object the repository returned and line 254 returns that object, so
\* from here old_system_design_doc and doc are one document with the new
\* content.
MergeFix ==
    /\ pc = "merge_fix"
    /\ LET fixed == [system_design[1] EXCEPT !.python_package_name = FixName(@)]
           merged == [old_system_design_doc[1] EXCEPT !.content = fixed]
       IN /\ system_design' = <<fixed>>
          /\ old_system_design_doc' = <<merged>>
          /\ doc' = <<merged>>
    /\ pc' = "save"
    /\ UNCHANGED <<inputs, system_designs, changed_files, phase, idx, filename, prd,
                   result, log>>

SaveDependencies_None(p) == {}

\* line 278: dependencies={prd.root_relative_path}
SaveDependencies(p) == {RootRelativePath(p)}

\* FileRepository.save: the file of that name now holds the content.
RepoSave(repo, f, content) ==
    [repo EXCEPT ![f] = <<Document("system_design_file_repo.root_path", f, content)>>]

Save_Skipped ==
    /\ pc = "save"
    /\ pc' = "save_data_api_design"
    /\ UNCHANGED <<inputs, system_designs, changed_files, phase, idx, locals, result, log>>

\* _update_system_design, lines 277-279
Save ==
    /\ pc = "save"
    /\ system_designs' = RepoSave(system_designs, filename, doc[1].content)
    /\ log' = Append(log, Event("designs.save", filename,
                                [content |-> doc[1].content,
                                 dependencies |-> SaveDependencies(prd[1])],
                                <<>>))
    /\ pc' = "save_data_api_design"
    /\ UNCHANGED <<inputs, changed_files, phase, idx, locals, result>>

\* `if not data_api_design: return` (lines 289-290, 299-300): a missing or
\* empty field renders nothing.
Renders(text) == text # ""

\* _save_data_api_design, lines 287-288
ClassDiagramSource(d) == d.content.data_structures_and_interface_definitions

SeqFlowSource_Swapped(d) == d.content.data_structures_and_interface_definitions

\* _save_seq_flow, lines 297-298
SeqFlowSource(d) == d.content.program_call_flow

\* _update_system_design line 280, _save_data_api_design lines 286-293
SaveDataApiDesign ==
    /\ pc = "save_data_api_design"
    /\ LET data_api_design == ClassDiagramSource(doc[1])
       IN IF Renders(data_api_design)
          THEN log' = Append(log, Event("mermaid_to_file", filename,
                                        [data |-> data_api_design,
                                         pathname |-> <<DATA_API_DESIGN_FILE_REPO, doc[1].filename>>],
                                        <<>>))
          ELSE UNCHANGED log
    /\ pc' = "save_seq_flow"
    /\ UNCHANGED <<inputs, system_designs, changed_files, phase, idx, locals, result>>

\* _update_system_design line 281, _save_seq_flow lines 296-303
SaveSeqFlow ==
    /\ pc = "save_seq_flow"
    /\ LET seq_flow == SeqFlowSource(doc[1])
       IN IF Renders(seq_flow)
          THEN log' = Append(log, Event("mermaid_to_file", filename,
                                        [data |-> seq_flow,
                                         pathname |-> <<SEQ_FLOW_FILE_REPO, doc[1].filename>>],
                                        <<>>))
          ELSE UNCHANGED log
    /\ pc' = "save_pdf"
    /\ UNCHANGED <<inputs, system_designs, changed_files, phase, idx, locals, result>>

\* _update_system_design lines 282-283, _save_pdf lines 306-308, and back in run
\* (lines 213, 221) the returned doc is filed under its filename and the loop
\* moves on.
SavePdf ==
    /\ pc = "save_pdf"
    /\ log' = Append(log, Event("save_pdf", filename, doc[1], <<>>))
    /\ changed_files' = (filename :> doc[1]) @@ changed_files
    /\ idx' = idx + 1
    /\ pc' = IF phase = 1 THEN "for_changed_prds" ELSE "for_changed_system_designs"
    /\ filename' = 0
    /\ prd' = <<>>
    /\ old_system_design_doc' = <<>>
    /\ system_design' = <<>>
    /\ doc' = <<>>
    /\ UNCHANGED <<inputs, system_designs, phase, result>>

ActionOutput(docs) == [content |-> <<"json", docs>>, instruct_content |-> docs]

Return_NoneWhenEmpty ==
    /\ pc = "return"
    /\ result' = IF DOMAIN changed_files = {} THEN <<>> ELSE <<ActionOutput(changed_files)>>
    /\ pc' = "returned"
    /\ UNCHANGED <<inputs, system_designs, changed_files, phase, idx, locals, log>>

\* run, lines 222-226
Return ==
    /\ pc = "return"
    /\ result' = <<ActionOutput(changed_files)>>
    /\ pc' = "returned"
    /\ UNCHANGED <<inputs, system_designs, changed_files, phase, idx, locals, log>>

\* The awaits at which a collaborator is being called.
CallPending ==
    \/ pc \in {"get_prd", "get_design", "save", "save_pdf"}
    \/ pc \in {"new_aask", "merge_aask"} /\ prd # <<>>
    \/ pc = "rename_workspace" /\ ~WORKDIR
    \/ pc = "save_data_api_design" /\ Renders(ClassDiagramSource(doc[1]))
    \/ pc = "save_seq_flow" /\ Renders(SeqFlowSource(doc[1]))

Raise_Rollback ==
    /\ CallPending
    /\ pc' = "raised"
    /\ system_designs' = IF filename \in Files
                         THEN [system_designs EXCEPT ![filename] = <<>>]
                         ELSE system_designs
    /\ UNCHANGED <<inputs, changed_files, phase, idx, locals, result, log>>

\* The called collaborator raises.  Nothing between the call and the caller of
\* run catches (lines 198-283 hold no try), so run ends without a value.
Raise ==
    /\ CallPending
    /\ pc' = "raised"
    /\ UNCHANGED <<inputs, system_designs, changed_files, phase, idx, locals, result, log>>

Next ==
    \/ ForChangedPrds
    \/ ForChangedSystemDesigns
    \/ GetPrd
    \/ GetDesign
    \/ NewAask
    \/ MergeAask
    \/ AttributeErrorOnPrd
    \/ NewFix
    \/ RenameWorkspace
    \/ MergeFix
    \/ Save
    \/ SaveDataApiDesign
    \/ SaveSeqFlow
    \/ SavePdf
    \/ Return
    \/ Raise

Spec == Init /\ [][Next]_vars

\* ------------------------------------------------------ reading the call log

ChangedUnion == Range(changed_prds) \cup Range(changed_system_designs)

\* The positions of the calls `op` made for file f.
Calls(op, f) == {i \in DOMAIN log : log[i].op = op /\ log[i].filename = f}

IsClassDiagram(e) == e.op = "mermaid_to_file" /\ e.arg.pathname[1] = DATA_API_DESIGN_FILE_REPO
IsSeqDiagram(e) == e.op = "mermaid_to_file" /\ e.arg.pathname[1] = SEQ_FLOW_FILE_REPO

\* The place of a call in the order of _update_system_design.
Rank(e) ==
    CASE e.op = "prds.get" -> 1
      [] e.op = "designs.get" -> 2
      [] e.op = "aask" -> 3
      [] e.op = "rename_root" -> 4
      [] e.op = "designs.save" -> 5
      [] IsClassDiagram(e) -> 6
      [] IsSeqDiagram(e) -> 7
      [] e.op = "save_pdf" -> 8

\* The calls made for file f, in call order, and their ranks.
CallsFor(f) == SelectSeq(log, LAMBDA e : e.filename = f)
RanksFor(f) == LET calls == CallsFor(f) IN [k \in DOMAIN calls |-> Rank(calls[k])]

\* The prior design _update_system_design read for f (<<>>: none).
PriorDesign(f) == log[CHOOSE i \in Calls("designs.get", f) : TRUE].ret

\* The content saved for f.
SavedContent(f) == log[CHOOSE i \in Calls("designs.save", f) : TRUE].arg.content

\* ------------------------------------------------------------------ claims

\* C1: for every processed filename exactly one branch is taken.  Without a
\* prior design the model gets the PRD's content alone and the document is a
\* fresh Document(SYSTEM_DESIGN_FILE_REPO, filename); with a prior design the
\* model gets the prior content and the PRD's content and only the prior
\* document's content is replaced.  The model is asked once per file and the
\* content saved is the content of the document returned.
C1_NewOrMerge_Inv ==
    /\ \A i \in DOMAIN log :
        LET f == log[i].filename IN
        /\ log[i].op = "aask" =>
              /\ log[i - 1].op = "designs.get" /\ log[i - 1].filename = f
              /\ log[i].arg.context = PrdContent(f)
              /\ log[i].arg.old_design =
                    IF log[i - 1].ret = <<>> THEN <<>> ELSE <<log[i - 1].ret[1].content>>
              /\ \A j \in (i + 1)..Len(log) : log[j].op = "aask" => log[j].filename # f
        /\ log[i].op = "designs.save" =>
              \E h \in 1..(i - 1) : log[h].op = "aask" /\ log[h].filename = f
    /\ pc \in {"save_data_api_design", "save_seq_flow", "save_pdf"} =>
            doc[1].content = SavedContent(filename)
    /\ (doc # <<>> /\ old_system_design_doc # <<>>) => doc = old_system_design_doc
    /\ \A f \in DOMAIN changed_files :
        LET saves == Calls("designs.save", f)
            prior == PriorDesign(f)
        IN /\ Cardinality(saves) = 1
           /\ \A i \in saves :
                 /\ changed_files[f].content = log[i].arg.content
                 /\ changed_files[f] =
                       IF prior = <<>>
                       THEN Document(SYSTEM_DESIGN_FILE_REPO, f, log[i].arg.content)
                       ELSE [prior[1] EXCEPT !.content = log[i].arg.content]

\* C1: new-or-merge, in every reachable state of a run.
C1_NewOrMerge == [] C1_NewOrMerge_Inv

\* A run that returned one fresh document and one merged document.
C1_Witness ==
    /\ pc = "returned"
    /\ \E f, g \in DOMAIN changed_files :
        /\ PriorDesign(f) = <<>>
        /\ PriorDesign(g) # <<>>
        /\ changed_files[g].content # PriorDesign(g)[1].content

\* C2: a run that returns has asked the model and saved the design exactly
\* once for each filename of the union of the two changed sets, a filename in
\* both sets included, and for no other filename; the keys of the returned
\* Documents are that union.
C2_UnionOnce_Inv ==
    pc = "returned" =>
        /\ DOMAIN result[1].instruct_content = ChangedUnion
        /\ \A f \in Files :
            /\ Cardinality(Calls("aask", f)) = IF f \in ChangedUnion THEN 1 ELSE 0
            /\ Cardinality(Calls("designs.save", f)) = IF f \in ChangedUnion THEN 1 ELSE 0

\* C2: each changed filename once, in every reachable state of a run.
C2_UnionOnce == [] C2_UnionOnce_Inv

\* A returned run with a filename in both sets and one in the designs only.
C2_Witness ==
    /\ pc = "returned"
    /\ Range(changed_prds) \cap Range(changed_system_designs) # {}
    /\ Range(changed_system_designs) \ Range(changed_prds) # {}

\* C3: the calls made for one filename come in the order PRD read, prior
\* design read, model, (workspace rename,) design save, class diagram,
\* sequence diagram, PDF; the model is asked after both reads, the design is
\* saved after the model answered, and no diagram or PDF of a filename is
\* produced before that filename's design was saved.
C3_StepOrder_Inv ==
    \A f \in Files :
        LET ranks == RanksFor(f)
            before(k, r) == \E h \in 1..(k - 1) : ranks[h] = r
        IN \A k \in DOMAIN ranks :
            /\ k > 1 => ranks[k - 1] < ranks[k]
            /\ ranks[k] = 3 => before(k, 1) /\ before(k, 2)
            /\ ranks[k] = 5 => before(k, 3)
            /\ ranks[k] \in {6, 7, 8} => before(k, 5)

\* C3: the step order, in every reachable state of a run.
C3_StepOrder == [] C3_StepOrder_Inv

\* A file for which all eight calls were made.
C3_Witness ==
    \E f \in Files : RanksFor(f) = <<1, 2, 3, 4, 5, 6, 7, 8>>

\* C4 as stated: every processed input gets its class diagram, its sequence
\* diagram and its PDF, all derived from the saved design document.
C4_AllThreeDerived ==
    \A f \in DOMAIN changed_files :
        /\ \E i \in Calls("mermaid_to_file", f) :
              IsClassDiagram(log[i]) /\
              log[i].arg.data = SavedContent(f).data_structures_and_interface_definitions
        /\ \E i \in Calls("mermaid_to_file", f) :
              IsSeqDiagram(log[i]) /\ log[i].arg.data = SavedContent(f).program_call_flow
        /\ \E i \in Calls("save_pdf", f) : log[i].arg.content = SavedContent(f)

\* C4, amended: for every processed input the PDF is exported from the saved
\* design document, and each diagram is rendered from its field of the saved
\* content exactly when that field is not empty: an empty "Data structures and
\* interface definitions" leaves no class diagram, an empty "Program call
\* flow" no sequence diagram.
C4_DerivedWhenPresent_Inv ==
    \A f \in DOMAIN changed_files :
        LET saved == SavedContent(f)
            class == {i \in Calls("mermaid_to_file", f) : IsClassDiagram(log[i])}
            seq == {i \in Calls("mermaid_to_file", f) : IsSeqDiagram(log[i])}
            pdf == Calls("save_pdf", f)
        IN /\ Cardinality(pdf) = 1
           /\ \A i \in pdf : log[i].arg = changed_files[f] /\ log[i].arg.content = saved
           /\ Cardinality(class) =
                 IF saved.data_structures_and_interface_definitions = "" THEN 0 ELSE 1
           /\ \A i \in class :
                 /\ log[i].arg.data = saved.data_structures_and_interface_definitions
                 /\ log[i].arg.pathname = <<DATA_API_DESIGN_FILE_REPO, f>>
           /\ Cardinality(seq) = IF saved.program_call_flow = "" THEN 0 ELSE 1
           /\ \A i \in seq :
                 /\ log[i].arg.data = saved.program_call_flow
                 /\ log[i].arg.pathname = <<SEQ_FLOW_FILE_REPO, f>>

\* C4: diagrams and PDF from the saved design (amended), in every reachable state of a run.
C4_DerivedWhenPresent == [] C4_DerivedWhenPresent_Inv

\* A processed file whose design has a call flow and no class diagram text.
C4_Witness ==
    \E f \in DOMAIN changed_files :
        /\ changed_files[f].content.data_structures_and_interface_definitions = ""
        /\ changed_files[f].content.program_call_flow # ""
        /\ \E i \in Calls("mermaid_to_file", f) : IsSeqDiagram(log[i])

\* C5: the calls of one filename are all made, the PDF export last, before the
\* first call of the next filename; a filename of changed_prds never comes
\* after a filename that is only in changed_system_designs; and run has a
\* value only when every changed filename has been processed to its PDF.
C5_Sequential_Inv ==
    /\ \A j \in DOMAIN log :
        j > 1 /\ log[j - 1].filename # log[j].filename =>
            log[j - 1].op = "save_pdf" /\ log[j].op = "prds.get"
    /\ \A i \in DOMAIN log :
        /\ log[i].op = "save_pdf" =>
              \A j \in (i + 1)..Len(log) : log[j].filename # log[i].filename
        /\ log[i].filename \notin Range(changed_prds) =>
              \A j \in (i + 1)..Len(log) : log[j].filename \notin Range(changed_prds)
    /\ result # <<>> =>
        /\ pc = "returned"
        /\ \A f \in ChangedUnion : Calls("save_pdf", f) # {}
        /\ log # <<>> => log[Len(log)].op = "save_pdf"

\* C5: sequential processing, in every reachable state of a run.
C5_Sequential == [] C5_Sequential_Inv

\* A returned run in which changed_system_designs lists a file of its own
\* ahead of a file of changed_prds.
C5_Witness ==
    /\ pc = "returned"
    /\ \E i, j \in DOMAIN changed_system_designs :
        /\ i < j
        /\ changed_system_designs[i] \notin Range(changed_prds)
        /\ changed_system_designs[j] \in Range(changed_prds)

\* C6: when a call fails the run ends there without a value: no further step
\* is taken (nothing more is processed, nothing is retried), no call was made
\* twice for a file, and whatever was written stays written -- every saved
\* design is still in the design repository, and the documents of the files
\* finished before are still held.
C6_FailurePropagates_Inv ==
    pc = "raised" =>
        /\ result = <<>>
        /\ ~ ENABLED Next
        /\ \A f \in Files :
              LET ranks == RanksFor(f)
              IN \A h, k \in DOMAIN ranks : h # k => ranks[h] # ranks[k]
        /\ \A i \in DOMAIN log :
              /\ log[i].filename = filename \/ log[i].filename \in DOMAIN changed_files
              /\ log[i].op = "designs.save" =>
                    /\ system_designs[log[i].filename] # <<>>
                    /\ system_designs[log[i].filename][1].content = log[i].arg.content
        /\ \A f \in DOMAIN changed_files : Calls("save_pdf", f) # {}

\* C6: failure propagation, in every reachable state of a run.
C6_FailurePropagates == [] C6_FailurePropagates_Inv

\* A run that failed on a diagram or the PDF of its second file, after that
\* file's design was saved.
C6_Witness ==
    /\ pc = "raised"
    /\ DOMAIN changed_files # {}
    /\ Calls("designs.save", filename) # {}

\* C7: with both changed sets empty, run calls no collaborator (no model call,
\* no save, no diagram, no PDF, no rename), cannot fail, and returns an
\* ActionOutput whose Documents is empty.
C7_NothingChanged_Inv ==
    (changed_prds = <<>> /\ changed_system_designs = <<>>) =>
        /\ log = <<>>
        /\ DOMAIN changed_files = {}
        /\ pc \in {"for_changed_prds", "for_changed_system_designs", "return", "returned"}
        /\ pc # "returned" => ENABLED Next /\ result = <<>>
        /\ pc = "returned" =>
              /\ result # <<>>
              /\ DOMAIN result[1].instruct_content = {}
              /\ result[1] = ActionOutput(changed_files)

\* C7: the empty run, in every reachable state of a run.
C7_NothingChanged == [] C7_NothingChanged_Inv

\* The empty run has returned.
C7_Witness ==
    /\ changed_prds = <<>>
    /\ changed_system_designs = <<>>
    /\ pc = "returned"

\* C8, calls: rename_root is called only with CONFIG.WORKDIR unset and only on
\* the new-design branch, directly after the model answered for that file and
\* before that file's design is saved, with the name that the saved design
\* then carries.
C8_RenameCalls ==
    \A j \in DOMAIN log :
        log[j].op = "rename_root" =>
            LET f == log[j].filename IN
            /\ ~WORKDIR
            /\ PriorDesign(f) = <<>>
            /\ j > 1 /\ log[j - 1].op = "aask" /\ log[j - 1].filename = f
            /\ log[j - 1].arg.old_design = <<>>
            /\ \A i \in Calls("designs.save", f) :
                  i > j /\ log[i].arg.content.python_package_name = log[j].arg
            /\ (pc = "save" /\ filename = f) =>
                  doc[1].content.python_package_name = log[j].arg

\* C8, steps: the name is fixed between the model's answer and the rename, and
\* the step that calls rename_root passes the fixed name.
C8_RenameStep ==
    /\ pc = "new_fix" =>
          system_design'[1].python_package_name = FixName(system_design[1].python_package_name)
    /\ (pc = "new_fix" \/ pc' = "rename_workspace") => (pc = "new_fix" /\ pc' = "rename_workspace")
    /\ log' # log /\ log'[Len(log')].op = "rename_root" =>
          /\ pc = "rename_workspace"
          /\ log'[Len(log')].arg = system_design[1].python_package_name

\* C8: the workspace root is renamed only on the new-design branch and only
\* when CONFIG.WORKDIR is unset, with the already fixed package name, after
\* the model call and before the design of that file is saved.
C8_RenameOnlyNewAndUnset == [] C8_RenameCalls /\ [][C8_RenameStep]_vars

\* The workspace was renamed for a new design, which was then saved.
C8_Witness ==
    \E j \in DOMAIN log :
        /\ log[j].op = "rename_root"
        /\ Calls("designs.save", log[j].filename) # {}

\* C10: a design is saved only for a filename whose PRD exists, with
\* dependencies exactly {that PRD's root-relative path}; and a filename whose
\* PRD the repository does not hold fails before the model is asked and
\* before anything is saved or derived for it, on either branch.
C10_PrdRequired_Inv ==
    /\ \A i \in DOMAIN log :
        LET f == log[i].filename IN
        /\ log[i].op = "designs.save" =>
              /\ prds[f] # <<>>
              /\ prds[f][1].filename = f
              /\ log[i].arg.dependencies = {RootRelativePath(prds[f][1])}
        /\ (log[i].op = "prds.get" /\ log[i].ret = <<>>) =>
              /\ \A j \in DOMAIN log : log[j].filename = f => Rank(log[j]) <= 2
              /\ f \notin DOMAIN changed_files
              /\ filename = f
              /\ pc \in {"get_design", "new_aask", "merge_aask", "raised"}
    /\ (pc \in {"new_aask", "merge_aask"} /\ prd = <<>>) =>
          /\ ENABLED AttributeErrorOnPrd
          /\ ~ ENABLED (NewAask \/ MergeAask)

\* C10: the PRD requirement, in every reachable state of a run.
C10_PrdRequired == [] C10_PrdRequired_Inv

\* A file of changed_system_designs alone, with a prior design and no PRD,
\* has failed ahead of the model call.
C10_Witness ==
    /\ pc = "raised"
    /\ prd = <<>>
    /\ old_system_design_doc # <<>>
    /\ filename \notin Range(changed_prds)
    /\ log[Len(log)].op = "designs.get"

\* ---------------------------------------------------- the package-name fix

\* The run right after the model answered for the first changed PRD, with any
\* string of at most MaxNameLen characters as "Python package name".
InitFix ==
    /\ changed_prds = <<1>>
    /\ changed_system_designs \in KeyOrders(Files \ {1})
    /\ WORKDIR \in BOOLEAN
    /\ prds \in {[f \in Files |-> IF f \in S THEN <<PrdDoc(f)>> ELSE <<>>] :
                    S \in {T \in SUBSET Files : 1 \in T}}
    /\ system_designs \in {[f \in Files |-> IF f \in S THEN <<OldDesignDoc(f)>> ELSE <<>>] :
                              S \in SUBSET Files}
    /\ changed_files = <<>>
    /\ phase = 1
    /\ idx = 1
    /\ pc = IF system_designs[1] = <<>> THEN "new_fix" ELSE "merge_fix"
    /\ filename = 1
    /\ prd = prds[1]
    /\ old_system_design_doc = system_designs[1]
    /\ \E name \in Names(MaxNameLen) :
          system_design = <<Answer(name, "classDiagram", "sequenceDiagram")>>
    /\ doc = <<>>
    /\ result = <<>>
    /\ log = <<Event("prds.get", 1, <<>>, prds[1]),
               Event("designs.get", 1, <<>>, system_designs[1]),
               Event("aask", 1,
                     [context |-> PrdContent(1),
                      old_design |-> IF system_designs[1] = <<>> THEN <<>>
                                     ELSE <<system_designs[1][1].content>>],
                     <<>>)>>

SpecFix == InitFix /\ [][Next]_vars

Quoting == {SP, SQ, DQ}

\* C9: the package name stored in a saved design has no leading or trailing
\* whitespace, single quote or double quote, and fixing it again changes
\* nothing.
C9_FixedNameIsClean ==
    \A i \in DOMAIN log :
        log[i].op = "designs.save" =>
            LET name == log[i].arg.content.python_package_name IN
            /\ name # <<>> => Head(name) \notin Quoting /\ name[Len(name)] \notin Quoting
            /\ FixName(name) = name

====
